---- MODULE Spec2Model ----
(***************************************************************************)
(* Streaming request gateway of ai-fiesta: provider router, entitlement    *)
(* guard, streaming orchestrator (backend/app/routers/chat.py and the      *)
(* in-memory app/routers/chat.py) and the credit ledger                    *)
(* (backend/app/services/user_service.py) over SQLAlchemy sessions.        *)
(*                                                                         *)
(* Texts (model identifiers, error messages, deltas, contents) are tuples  *)
(* of one-character strings, so that lower(), substring tests, strip(),    *)
(* split() and slicing are computed the way the Python code computes them. *)
(***************************************************************************)
EXTENDS Integers, Sequences, FiniteSets, TLC

VARIABLES
    env,        \* process configuration: which SDKs are importable, which API keys are set
    sub,        \* the tenant's committed subscriptions row
    sub0,       \* history: the row before any of the requests
    lock,       \* holder of the row lock taken by SELECT ... FOR UPDATE (0: nobody)
    ver,        \* history: number of committed writes to the row's credit columns
    impl,       \* which orchestrator is deployed: "backend" (database) or "app" (in-memory)
    tk,         \* per request task: handler position, session, stream session, caller-observed events
    rt_model,   \* router check: the model identifier handed to create_provider
    rt_result,  \* router check: what create_provider did with it
    rate_limiter,       \* dependencies.rate_limiter: per user, the timestamps of its window
    user_last_request,  \* chat.user_last_request: per user, the time of its last request
    subscriptions_db,   \* rate limiter check: per user, the tier of its subscription
    now,        \* the wall clock, in ticks
    rl_call,    \* history: the last call of check_rate_limit
    admissions, \* history: per user, the calls check_rate_limit admitted (time, ceiling)
    ad,         \* adapter check: one stream_generate call of an adapter
    em          \* emulation check: one run of the generator emulate_stream_text

limiter == <<rate_limiter, user_last_request, subscriptions_db, now, rl_call, admissions>>

vars == <<env, sub, sub0, lock, ver, impl, tk, rt_model, rt_result, limiter, ad, em>>

(***************************************************************************)
(* Bounds of the model.                                                    *)
(***************************************************************************)
NTasks == 2          \* concurrent request tasks of the tenant
MaxDeltas == 2       \* deltas one adapter stream yields at most
MaxLen == 3          \* longest content a non-streaming generate returns
EmuChunkSize == 2    \* window of emulate_stream_text (120 in the source, scaled to MaxLen)
MaxPrompt == 2       \* largest estimated prompt token count
MaxTok == 2          \* largest max_tokens a request asks for
FreeCredits == 4     \* credits_per_month of the free tier (5000 in the source, scaled)
ProCredits == 7      \* credits_per_month of the pro tier (50000 in the source, scaled)
MaxAdd == 2          \* largest amount of one add-credits / use-credits call
NUsers == 2          \* users with a rate window
Minute == 2          \* ticks of the clock in the limiter's 60 seconds
min_spacing == 1     \* ticks in the 4 seconds between two requests of a user
FreeRate == 1        \* rate_limit_per_minute of the free tier (5 in the source, scaled)
ProRate == 2         \* rate_limit_per_minute of the pro tier (60 in the source, scaled)
MaxTicks == 3        \* ticks the clock advances at most
MaxChunk == 3        \* largest chunk_size emulate_stream_text is called with

Tasks == 1..NTasks
Users == 1..NUsers
tenant == 1          \* the user the request tasks belong to

Max(a, b) == IF a >= b THEN a ELSE b
Min(a, b) == IF a <= b THEN a ELSE b

(***************************************************************************)
(* Text helpers: str.lower, `in`, str.strip, str.split, slicing.           *)
(***************************************************************************)
LowerOf ==
    [c \in {"A","B","C","D","E","F","G","H","I","J","K","L","M",
            "N","O","P","Q","R","S","T","U","V","W","X","Y","Z"} |->
        CASE c = "A" -> "a" [] c = "B" -> "b" [] c = "C" -> "c" [] c = "D" -> "d"
          [] c = "E" -> "e" [] c = "F" -> "f" [] c = "G" -> "g" [] c = "H" -> "h"
          [] c = "I" -> "i" [] c = "J" -> "j" [] c = "K" -> "k" [] c = "L" -> "l"
          [] c = "M" -> "m" [] c = "N" -> "n" [] c = "O" -> "o" [] c = "P" -> "p"
          [] c = "Q" -> "q" [] c = "R" -> "r" [] c = "S" -> "s" [] c = "T" -> "t"
          [] c = "U" -> "u" [] c = "V" -> "v" [] c = "W" -> "w" [] c = "X" -> "x"
          [] c = "Y" -> "y" [] c = "Z" -> "z"]

lower(s) == [i \in 1..Len(s) |-> IF s[i] \in DOMAIN LowerOf THEN LowerOf[s[i]] ELSE s[i]]

\* key in s
Contains(s, key) ==
    \E i \in 0..(Len(s) - Len(key)) : \A j \in 1..Len(key) : s[i + j] = key[j]

IsSpace(c) == c = " "

\* the result of s.strip() is empty
StripIsEmpty(s) == \A i \in 1..Len(s) : IsSpace(s[i])

\* len(s.split())
SplitLen(s) ==
    Cardinality({i \in 1..Len(s) : ~IsSpace(s[i]) /\ (i = 1 \/ IsSpace(s[i - 1]))})

\* s[a:b] with 0 <= a <= b <= len(s)
Slice(s, a, b) == [i \in 1..(b - a) |-> s[a + i]]

RECURSIVE Concat(_)
Concat(ss) == IF ss = <<>> THEN <<>> ELSE Head(ss) \o Concat(Tail(ss))

(***************************************************************************)
(* Provider router.                                                        *)
(***************************************************************************)
None == <<"None">>          \* Python's None where a text is expected

kw_gpt == <<"g","p","t">>
kw_o1 == <<"o","1">>
kw_openai == <<"o","p","e","n","a","i">>
kw_claude == <<"c","l","a","u","d","e">>
kw_gemini == <<"g","e","m","i","n","i">>
kw_grok == <<"g","r","o","k">>
kw_perplexity == <<"p","e","r","p","l","e","x","i","t","y">>
kw_sonar == <<"s","o","n","a","r">>

\* the class create_provider picks for a model identifier
ProviderClass(model) ==
    LET model_lower == lower(IF model = None THEN <<>> ELSE model) IN
    IF \E key \in {kw_gpt, kw_o1, kw_openai} : Contains(model_lower, key) THEN "openai"
    ELSE IF Contains(model_lower, kw_claude) THEN "anthropic"
    ELSE IF Contains(model_lower, kw_gemini) THEN "gemini"
    ELSE IF Contains(model_lower, kw_grok) THEN "grok"
    ELSE IF Contains(model_lower, kw_perplexity) \/ Contains(model_lower, kw_sonar)
         THEN "perplexity"
    ELSE "mock"

Raises == {"RuntimeError", "TypeError"}

\* the adapter's constructor: the adapter's name, or the exception it raises
Construct(cls, e) ==
    CASE cls = "openai" -> "openai"
      [] cls = "anthropic" -> "anthropic"
      [] cls = "gemini" ->
            IF ~e.genai_sdk \/ ~e.gemini_key THEN "RuntimeError" ELSE "gemini"
      [] cls = "grok" ->
            IF ~e.grok_key \/ ~e.openai_sdk THEN "RuntimeError" ELSE "grok"
      [] cls = "perplexity" ->
            IF ~e.perplexity_key \/ ~e.httpx THEN "RuntimeError" ELSE "perplexity"
      [] OTHER -> "TypeError"   \* MockLLMProvider leaves stream_generate abstract

create_provider(model, e) == Construct(ProviderClass(model), e)

kw_turbo == <<"t","u","r","b","o">>

\* the class the in-memory orchestrator's factory picks
ProviderClassApp(model) ==
    LET model_lower == lower(IF model = None THEN <<>> ELSE model) IN
    IF \E key \in {kw_gpt, kw_turbo} : Contains(model_lower, key) THEN "openai"
    ELSE IF Contains(model_lower, kw_claude) THEN "anthropic"
    ELSE IF Contains(model_lower, kw_gemini) THEN "gemini"
    ELSE "mock"

create_provider_app(model, e) == Construct(ProviderClassApp(model), e)

Envs == [genai_sdk : BOOLEAN, gemini_key : BOOLEAN, grok_key : BOOLEAN,
         openai_sdk : BOOLEAN, anthropic_sdk : BOOLEAN, perplexity_key : BOOLEAN,
         httpx : BOOLEAN]

EnvAll == [genai_sdk |-> TRUE, gemini_key |-> TRUE, grok_key |-> TRUE,
           openai_sdk |-> TRUE, anthropic_sdk |-> TRUE, perplexity_key |-> TRUE,
           httpx |-> TRUE]

gpt_35_turbo == <<"g","p","t","-","3",".","5","-","t","u","r","b","o">>
claude_3_haiku == <<"c","l","a","u","d","e","-","3","-","h","a","i","k","u","-",
                    "2","0","2","4","0","3","0","7">>
grok_beta == <<"g","r","o","k","-","b","e","t","a">>
mock == <<"m","o","c","k">>

RouterInputs ==
    { None, <<>>, gpt_35_turbo, claude_3_haiku, grok_beta, mock,
      <<"G","P","T","-","4","o">>, <<"o","1","-","m","i","n","i">>,
      <<"G","e","m","i","n","i","-","P","r","o">>, <<"s","o","n","a","r">>,
      <<"l","l","a","m","a">>, <<"g","r","o","k","-","g","p","t">> }

(***************************************************************************)
(* Model catalogue and subscription tiers (backend/app/models.py).         *)
(***************************************************************************)
\* models.MODEL_CREDIT_COSTS.get(model, 0.01), in thousandths of a credit per token
MilliMultiplier(model) ==
    CASE model = gpt_35_turbo -> 1250
      [] model = claude_3_haiku -> 1000
      [] model = grok_beta -> 2500
      [] OTHER -> 10

\* MODEL_CREDIT_COSTS of the in-memory orchestrator, in thousandths
MilliMultiplierApp(model) ==
    CASE model = gpt_35_turbo -> 10
      [] model = claude_3_haiku -> 20
      [] OTHER -> 10

\* int(tokens * multiplier)
Credits(tokens, model) == (tokens * MilliMultiplier(model)) \div 1000

Plans == {"free", "pro"}

\* SUBSCRIPTION_TIERS[tier]["allowed_models"]
allowed_models(plan) ==
    IF plan = "free" THEN {gpt_35_turbo} ELSE {gpt_35_turbo, claude_3_haiku, grok_beta}

\* SUBSCRIPTION_TIERS[tier]["allowed_models"] of the in-memory orchestrator
allowed_models_app(plan) ==
    IF plan = "free" THEN {gpt_35_turbo} ELSE {gpt_35_turbo, claude_3_haiku}

\* SUBSCRIPTION_TIERS[tier]["credits_per_month"]
credits_per_month(plan) == IF plan = "free" THEN FreeCredits ELSE ProCredits

\* token_counter.count_tokens(text, provider) without tiktoken
count_tokens(provider, text) ==
    IF provider = "gemini" THEN Max(1, Len(text) \div 4) ELSE Max(1, SplitLen(text))

(***************************************************************************)
(* The subscriptions row and the ORM session of a request.                 *)
(***************************************************************************)
Row(status, plan, limit, used, remaining) ==
    [present |-> TRUE, status |-> status, plan |-> plan, credits_limit |-> limit,
     credits_used |-> used, credits_remaining |-> remaining]

\* what create_user inserts for a new tenant
NewRow(plan) == Row("active", plan, credits_per_month(plan), 0, credits_per_month(plan))

NoObj == [present |-> FALSE, status |-> "", plan |-> "", credits_limit |-> 0,
          credits_used |-> 0, credits_remaining |-> 0]

CreditCols == {"credits_limit", "credits_used", "credits_remaining"}

\* the UPDATE a commit flushes: the columns whose value differs from the loaded one
Flush(row, loaded, new) ==
    [col \in DOMAIN row |-> IF new[col] # loaded[col] THEN new[col] ELSE row[col]]

Wrote(row, loaded, new) == Flush(row, loaded, new) # row

Event(type, content, error, used, remaining) ==
    [type |-> type, content |-> content, error |-> error,
     credits_used |-> used, credits_remaining |-> remaining]

Chunk(text) == Event("chunk", text, "", 0, 0)
Error(kind, message) == Event("error", message, kind, 0, 0)
Done(o) == Event("done", <<>>, "", o.credits_used, o.credits_remaining)

TaskInit ==
    [pc |-> "idle", kind |-> "none", model |-> <<>>, provider |-> "",
     estimated |-> 0, max_tokens |-> 0,
     obj |-> NoObj, objVer |-> 0, cached |-> FALSE,
     events |-> <<>>, http |-> 0,
     full_response |-> <<>>, any_chunk_sent |-> FALSE, emulated_sent |-> FALSE,
     exc |-> <<>>, content |-> <<>>, parts |-> <<>>, up |-> 0,
     gen_calls |-> 0, deducts |-> 0, amt |-> 0, passed |-> FALSE, seen |-> 0, paid |-> 0,
     needed |-> 0, admitted |-> FALSE, admittedAt |-> 0, seenVer |-> 0, tier |-> "",
     raised0 |-> FALSE, fallback_raised |-> FALSE, exc2 |-> <<>>, fin_raised |-> FALSE,
     disconnected |-> "", failed_check |-> "", usage |-> 0, yielded |-> <<>>,
     saved |-> 0]

Set(t, r) == tk' = [tk EXCEPT ![t] = r]

(***************************************************************************)
(* Rate limiter (app/dependencies.py).                                     *)
(***************************************************************************)
\* SUBSCRIPTION_TIERS[tier]["rate_limit_per_minute"]
rate_limit_per_minute(plan) == IF plan = "free" THEN FreeRate ELSE ProRate

\* mutant: the purge keeps one tick less than the minute
Purged_short(window, t) == SelectSeq(window, LAMBDA ts : ts > t - Minute + 1)

\* [ts for ts in rate_limiter[user_id] if ts > minute_ago]
Purged(window, t) == SelectSeq(window, LAMBDA ts : ts > t - Minute)

\* mutant: the timestamp is appended before the ceiling is tested
check_rate_limit_append_first(window, limit, t) ==
    LET kept == Append(Purged(window, t), t) IN
    [raised |-> Len(kept) > limit, window |-> kept]

\* check_rate_limit on the window of its user at time t: whether it raises the 429
\* and the window it leaves
check_rate_limit(window, limit, t) ==
    LET kept == Purged(window, t) IN
    IF Len(kept) >= limit
    THEN [raised |-> TRUE, window |-> kept]
    ELSE [raised |-> FALSE, window |-> Append(kept, t)]

\* the record of a call of check_rate_limit
Call(user_id, limit, res) ==
    [user_id |-> user_id, rate_limit_per_minute |-> limit, raised |-> res.raised,
     before |-> rate_limiter, at |-> now]

NoCall == [user_id |-> 0, rate_limit_per_minute |-> 0, raised |-> FALSE,
           before |-> [u \in Users |-> <<>>], at |-> 0]

\* the log of admitted calls after a call of check_rate_limit
Logged(user_id, limit, res) ==
    IF res.raised THEN admissions
    ELSE [admissions EXCEPT ![user_id] = Append(@, [at |-> now, limit |-> limit])]

\* POST /chat/ of the in-memory orchestrator as far as the rate limiter:
\* check_rate_limit(user_id, subscription["rate_limit_per_minute"])
limited_request(user_id) ==
    /\ LET limit == rate_limit_per_minute(subscriptions_db[user_id])
           res == check_rate_limit(rate_limiter[user_id], limit, now)
       IN
       /\ rate_limiter' = [rate_limiter EXCEPT ![user_id] = res.window]
       /\ rl_call' = Call(user_id, limit, res)
       /\ admissions' = Logged(user_id, limit, res)
    /\ UNCHANGED <<user_last_request, subscriptions_db, now, ad, em, env, sub, sub0, lock, ver,
                   impl, tk, rt_model, rt_result>>

\* POST /subscriptions/{user_id}/upgrade of the in-memory orchestrator: the user's
\* subscription is replaced by a new one of the tier
upgrade_subscription_app(user_id, tier) ==
    /\ tier \in Plans
    /\ subscriptions_db' = [subscriptions_db EXCEPT ![user_id] = tier]
    /\ UNCHANGED <<rate_limiter, user_last_request, now, rl_call, admissions, ad, em, env, sub, sub0, lock,
                   ver, impl, tk, rt_model, rt_result>>

\* time passes
tick ==
    /\ now < Minute + MaxTicks
    /\ now' = now + 1
    /\ UNCHANGED <<rate_limiter, user_last_request, subscriptions_db, rl_call, admissions, ad, em, env, sub,
                   sub0, lock, ver, impl, tk, rt_model, rt_result>>

(***************************************************************************)
(* Entitlement guard: the handlers up to the response they return.         *)
(***************************************************************************)
\* the error kind the handler reports when a check of the guard fails ("": the
\* handler has no such check)
ErrorKind(check) ==
    IF impl = "backend"
    THEN CASE check = "existence" -> "invalid_subscription"
           [] check = "status" -> "invalid_subscription"
           [] check = "allow_list" -> "model_not_allowed"
           [] check = "credits" -> "insufficient_credits"
           [] OTHER -> ""
    ELSE CASE check = "existence" -> "invalid_user_or_subscription"
           [] check = "status" -> "invalid_user_or_subscription"
           [] check = "allow_list" -> "model_not_allowed"
           [] check = "spacing" -> "rate_limit"
           [] check = "rate_limiter" -> "rate_limited"
           [] check = "credits" -> "insufficient_credits"
           [] OTHER -> ""
\* int((estimated + max_tokens) * MODEL_CREDIT_COSTS.get(model, 0.01))
Needed(est, max_tokens, model) == Credits(est + max_tokens, model)

\* the request's fields and the session's first read of the row
Opened(t, kind, cls, model, est, max_tokens) ==
    [tk[t] EXCEPT !.kind = kind, !.model = model, !.estimated = est,
                  !.max_tokens = max_tokens, !.obj = sub, !.objVer = ver,
                  !.provider = cls, !.admittedAt = sub.credits_remaining]

\* stream_error(kind, message): a StreamingResponse of one error event
Rejected(r, kind) ==
    [r EXCEPT !.pc = "closed", !.http = 200, !.events = <<Error(kind, <<>>)>>]

\* the same for a failing check of the guard
RejectedBy(r, check) == [Rejected(r, ErrorKind(check)) EXCEPT !.failed_check = check]

\* mutant: the pre-check reserves the credits it requires
stream_chat_reserving(t, model, est, max_tokens) ==
    /\ impl = "backend"
    /\ tk[t].pc = "idle"
    /\ lock = 0
    /\ sub.present /\ sub.status = "active" /\ model \in allowed_models(sub.plan)
    /\ create_provider(model, env) \notin Raises
    /\ sub.credits_remaining >= Needed(est, max_tokens, model)
    /\ sub' = [sub EXCEPT !.credits_used = @ + Needed(est, max_tokens, model),
                          !.credits_remaining = @ - Needed(est, max_tokens, model)]
    /\ user_last_request' = [user_last_request EXCEPT ![tenant] = now]
    /\ Set(t, [Opened(t, "stream", ProviderClass(model), model, est, max_tokens)
                  EXCEPT !.pc = "stream", !.http = 200, !.admitted = TRUE,
                         !.needed = Needed(est, max_tokens, model)])
    /\ UNCHANGED <<rate_limiter, subscriptions_db, now, rl_call, admissions, ad, em, env, sub0, lock,
                   ver, impl, rt_model, rt_result>>

\* POST /stream/chat of the backend, to the point where event_stream starts
stream_chat(t, model, est, max_tokens) ==
    /\ impl = "backend"
    /\ tk[t].pc = "idle"
    /\ \E json_ok \in BOOLEAN :
       LET r == Opened(t, "stream", ProviderClass(model), model, est, max_tokens) IN
       IF ~json_ok
       THEN Set(t, Rejected(r, "invalid_request")) /\ UNCHANGED user_last_request
       ELSE IF ~sub.present \/ sub.status # "active"
       THEN /\ Set(t, RejectedBy(r, IF ~sub.present THEN "existence" ELSE "status"))
            /\ UNCHANGED user_last_request
       ELSE IF model \notin allowed_models(sub.plan)
       THEN Set(t, RejectedBy(r, "allow_list")) /\ UNCHANGED user_last_request
       ELSE /\ user_last_request' = [user_last_request EXCEPT ![tenant] = now]
            /\ IF create_provider(model, env) \in Raises
               THEN Set(t, [r EXCEPT !.pc = "closed", !.http = 500])
               ELSE IF sub.credits_remaining < Needed(est, max_tokens, model)
               THEN Set(t, RejectedBy(r, "credits"))
               ELSE Set(t, [r EXCEPT !.pc = "stream", !.http = 200, !.admitted = TRUE,
                                     !.needed = Needed(est, max_tokens, model)])
    /\ UNCHANGED <<rate_limiter, subscriptions_db, now, rl_call, admissions, ad, em, env, sub, sub0, lock,
                   ver, impl, rt_model, rt_result>>

\* POST /chat/ of the backend, to the point where generate is awaited
chat(t, model, est, max_tokens) ==
    /\ impl = "backend"
    /\ tk[t].pc = "idle"
    /\ LET r == Opened(t, "chat", ProviderClass(model), model, est, max_tokens) IN
       IF ~sub.present \/ sub.status # "active"
       THEN Set(t, [r EXCEPT !.pc = "closed", !.http = 403])
       ELSE IF model \notin allowed_models(sub.plan)
       THEN Set(t, [r EXCEPT !.pc = "closed", !.http = 403])
       ELSE IF create_provider(model, env) \in Raises
       THEN Set(t, [r EXCEPT !.pc = "closed", !.http = 500])
       ELSE IF sub.credits_remaining < Needed(est, max_tokens, model)
       THEN Set(t, [r EXCEPT !.pc = "closed", !.http = 402])
       ELSE Set(t, [r EXCEPT !.pc = "generate", !.cached = TRUE, !.admitted = TRUE,
                             !.needed = Needed(est, max_tokens, model)])
    /\ UNCHANGED <<limiter, ad, em, env, sub, sub0, lock, ver, impl, rt_model, rt_result>>

\* check_credits_available of the in-memory orchestrator
check_credits_available(subscription, tokens, model) ==
    subscription.credits_remaining >= (tokens * MilliMultiplierApp(model)) \div 1000

\* POST /stream/chat of the in-memory orchestrator, to the point where event_stream starts
stream_chat_app(t, model, est, max_tokens) ==
    /\ impl = "app"
    /\ tk[t].pc = "idle"
    /\ \E body \in {"not_json", "no_user_id", "ok"} :
       LET r == Opened(t, "stream", ProviderClassApp(model), model, est, max_tokens)
           limit == rate_limit_per_minute(sub.plan)
           res == check_rate_limit(rate_limiter[tenant], limit, now)
       IN
       IF body = "not_json"
       THEN /\ Set(t, Rejected(r, "invalid_request"))
            /\ UNCHANGED <<rate_limiter, user_last_request, rl_call, admissions>>
       ELSE IF body = "no_user_id"
       THEN /\ Set(t, Rejected(r, "missing_user"))
            /\ UNCHANGED <<rate_limiter, user_last_request, rl_call, admissions>>
       ELSE IF ~sub.present \/ sub.status # "active"
       THEN /\ Set(t, RejectedBy(r, IF ~sub.present THEN "existence" ELSE "status"))
            /\ UNCHANGED <<rate_limiter, user_last_request, rl_call, admissions>>
       ELSE IF model \notin allowed_models_app(sub.plan)
       THEN /\ Set(t, RejectedBy(r, "allow_list"))
            /\ UNCHANGED <<rate_limiter, user_last_request, rl_call, admissions>>
       ELSE IF now - user_last_request[tenant] < min_spacing
       THEN /\ Set(t, RejectedBy(r, "spacing"))
            /\ UNCHANGED <<rate_limiter, user_last_request, rl_call, admissions>>
       ELSE /\ user_last_request' = [user_last_request EXCEPT ![tenant] = now]
            /\ rate_limiter' = [rate_limiter EXCEPT ![tenant] = res.window]
            /\ rl_call' = Call(tenant, limit, res)
            /\ admissions' = Logged(tenant, limit, res)
            /\ IF res.raised
               THEN Set(t, RejectedBy(r, "rate_limiter"))
               ELSE IF create_provider_app(model, env) \in Raises
               THEN Set(t, [r EXCEPT !.pc = "closed", !.http = 500])
               ELSE IF ~check_credits_available(sub, est + max_tokens, model)
               THEN Set(t, RejectedBy(r, "credits"))
               ELSE Set(t, [r EXCEPT !.pc = "stream", !.http = 200, !.admitted = TRUE])
    /\ UNCHANGED <<subscriptions_db, now, ad, em, env, sub, sub0, lock, ver, impl, rt_model,
                   rt_result>>

(***************************************************************************)
(* The upstream as the adapters surface it.                                *)
(***************************************************************************)
\* "... client not available (library not installed)", abbreviated
client_not_available == <<"n","o","t"," ","a","v","a","i","l","a","b","l","e">>
boom == <<"b","o","o","m">>
Quota == <<"Q","u","o","t","a">>
rate == <<"r","a","t","e">>
exhausted == <<"e","x","h","a","u","s","t","e","d">>

\* str(e) of what an upstream call can raise
UpstreamErrors == {boom, Quota, rate, exhausted}

\* what one delta of a stream can carry (the adapters yield no empty delta)
Deltas == {<<"h","i">>, <<" ">>}

\* result.get('content') of a non-streaming generate, up to MaxLen characters
Contents == {c \in {<<>>, <<"o","k">>, <<" ">>, <<"a"," "," ">>, <<"a"," ","b">>,
                    <<" "," "," ">>} : Len(c) <= MaxLen}

kw_quota == <<"q","u","o","t","a">>
kw_limit == <<"l","i","m","i","t">>
kw_rate == <<"r","a","t","e">>
kw_exhausted == <<"e","x","h","a","u","s","t","e","d">>

\* the orchestrator's test for a quota or rate-limit failure
IsQuota(msg) ==
    LET low == lower(msg) IN
    IF impl = "backend"
    THEN Contains(low, kw_quota) \/ Contains(low, kw_limit)
    ELSE Contains(low, kw_quota) \/ Contains(low, kw_limit) \/ Contains(low, kw_rate)
         \/ Contains(low, kw_exhausted)

\* self.client is None: the adapter's SDK could not be imported
ClientMissing(r) ==
    \/ r.provider = "openai" /\ ~env.openai_sdk
    \/ r.provider = "anthropic" /\ ~env.anthropic_sdk

\* stream_generate lets an exception reach the orchestrator
StreamCanRaise(r, msg) ==
    \/ ClientMissing(r) /\ r.up = 0 /\ msg = client_not_available
    \/ r.provider \in {"grok", "perplexity"} /\ msg \in UpstreamErrors

\* generate raises
GenerateCanRaise(r, msg) ==
    IF ClientMissing(r) THEN msg = client_not_available ELSE msg \in UpstreamErrors

RECURSIVE emulate_from(_, _)
emulate_from(text, pos) ==
    IF pos >= Len(text) THEN <<>>
    ELSE LET end == Min(pos + EmuChunkSize, Len(text)) IN
         <<Slice(text, pos, end)>> \o emulate_from(text, end)

\* the parts emulate_stream_text(text) yields
emulate_stream_text(text) == emulate_from(text, 0)

Emit(r, e) == [r EXCEPT !.events = Append(@, e)]

\* one relayed chunk: the event, full_response += text, any_chunk_sent = True
Relay(r, text) ==
    [Emit(r, Chunk(text)) EXCEPT !.full_response = @ \o text, !.any_chunk_sent = TRUE]

(***************************************************************************)
(* event_stream: relay, fallback, emulation.                               *)
(***************************************************************************)
\* one iteration of `async for chunk in provider.stream_generate(...)`
stream_delta(t, d) ==
    /\ tk[t].pc = "stream"
    /\ ~ClientMissing(tk[t])
    /\ tk[t].up < MaxDeltas
    /\ LET r == [tk[t] EXCEPT !.up = @ + 1, !.yielded = Append(@, d)] IN
       IF StripIsEmpty(d) THEN Set(t, r) ELSE Set(t, Relay(r, d))
    /\ UNCHANGED <<limiter, ad, em, env, sub, sub0, lock, ver, impl, rt_model, rt_result>>

\* mutant: the database orchestrator, too, asks generate again when no chunk was sent
AfterRelaySilentAlways(r) ==
    IF ~r.any_chunk_sent THEN [r EXCEPT !.pc = "silent"]
    ELSE [r EXCEPT !.pc = "finalize"]

\* where event_stream goes when the try/except around the relay is left normally
AfterRelay(r) ==
    IF impl = "app" /\ ~r.any_chunk_sent THEN [r EXCEPT !.pc = "silent"]
    ELSE [r EXCEPT !.pc = "finalize"]

\* the adapter's stream is exhausted
stream_end(t) ==
    /\ tk[t].pc = "stream"
    /\ ~ClientMissing(tk[t])
    /\ Set(t, AfterRelay(tk[t]))
    /\ UNCHANGED <<limiter, ad, em, env, sub, sub0, lock, ver, impl, rt_model, rt_result>>

\* `except Exception as e` around the relay
stream_raise(t, msg) ==
    /\ tk[t].pc = "stream"
    /\ StreamCanRaise(tk[t], msg)
    /\ LET r == [tk[t] EXCEPT !.exc = msg,
                              !.raised0 = ~IsQuota(msg) /\ ~tk[t].any_chunk_sent] IN
       IF IsQuota(msg)
       THEN Set(t, [Emit(r, Error(IF impl = "backend" THEN "provider_error" ELSE "llm_error",
                                  msg)) EXCEPT !.pc = "closed"])
       ELSE IF impl = "backend" /\ r.any_chunk_sent
       THEN Set(t, [r EXCEPT !.pc = "finalize"])
       ELSE Set(t, [r EXCEPT !.pc = "fallback"])
    /\ UNCHANGED <<limiter, ad, em, env, sub, sub0, lock, ver, impl, rt_model, rt_result>>

\* the fallback `await provider.generate(...)` returns
fallback_return(t, content) ==
    /\ tk[t].pc = "fallback"
    /\ ~ClientMissing(tk[t])
    /\ LET r == [tk[t] EXCEPT !.gen_calls = @ + 1, !.content = content] IN
       IF content # <<>>
       THEN Set(t, [r EXCEPT !.pc = "emulate", !.parts = emulate_stream_text(content)])
       ELSE Set(t, AfterRelay(r))
    /\ UNCHANGED <<limiter, ad, em, env, sub, sub0, lock, ver, impl, rt_model, rt_result>>

\* mutant: the failure of the fallback generate is passed over, as the in-memory
\* orchestrator does for its second generate
fallback_raise_pass(t, msg2) ==
    /\ tk[t].pc = "fallback"
    /\ GenerateCanRaise(tk[t], msg2)
    /\ Set(t, [tk[t] EXCEPT !.gen_calls = @ + 1, !.fallback_raised = TRUE,
                            !.exc2 = msg2, !.pc = "finalize"])
    /\ UNCHANGED <<limiter, ad, em, env, sub, sub0, lock, ver, impl, rt_model, rt_result>>

\* the fallback generate raises: one error event, then return
fallback_raise(t, msg2) ==
    /\ tk[t].pc = "fallback"
    /\ GenerateCanRaise(tk[t], msg2)
    /\ LET r == [tk[t] EXCEPT !.gen_calls = @ + 1, !.fallback_raised = TRUE,
                              !.exc2 = msg2] IN
       Set(t, [Emit(r, Error("llm_error", IF impl = "backend" THEN msg2 ELSE r.exc))
                  EXCEPT !.pc = "closed"])
    /\ UNCHANGED <<limiter, ad, em, env, sub, sub0, lock, ver, impl, rt_model, rt_result>>

\* one part of `async for part in emulate_stream_text(content)` in the except branch
emulate_part(t) ==
    /\ tk[t].pc = "emulate"
    /\ LET part == Head(tk[t].parts)
           r0 == [tk[t] EXCEPT !.parts = Tail(@)]
           r == IF impl = "app" /\ StripIsEmpty(part) THEN r0 ELSE Relay(r0, part)
       IN
       IF r.parts # <<>> THEN Set(t, r)
       ELSE IF impl = "backend"
       THEN Set(t, [r EXCEPT !.full_response = r.content, !.pc = "finalize"])
       ELSE Set(t, AfterRelay(r))
    /\ UNCHANGED <<limiter, ad, em, env, sub, sub0, lock, ver, impl, rt_model, rt_result>>

\* in-memory orchestrator, `if not any_chunk_sent`: the second generate returns
silent_return(t, content) ==
    /\ tk[t].pc = "silent"
    /\ ~ClientMissing(tk[t])
    /\ LET r == [tk[t] EXCEPT !.gen_calls = @ + 1, !.content = content] IN
       IF content # <<>>
       THEN Set(t, [r EXCEPT !.pc = "emulate2", !.parts = emulate_stream_text(content),
                             !.emulated_sent = FALSE])
       ELSE Set(t, [r EXCEPT !.pc = "finalize"])
    /\ UNCHANGED <<limiter, ad, em, env, sub, sub0, lock, ver, impl, rt_model, rt_result>>

\* in-memory orchestrator: the second generate raises, `except Exception: pass`
silent_raise(t, msg) ==
    /\ tk[t].pc = "silent"
    /\ GenerateCanRaise(tk[t], msg)
    /\ Set(t, [tk[t] EXCEPT !.gen_calls = @ + 1, !.pc = "finalize"])
    /\ UNCHANGED <<limiter, ad, em, env, sub, sub0, lock, ver, impl, rt_model, rt_result>>

\* in-memory orchestrator: one part of the emulation of the second generate, and after
\* the last part the whole content as one chunk if no part was sent
emulate2_part(t) ==
    /\ tk[t].pc = "emulate2"
    /\ LET part == Head(tk[t].parts)
           r0 == [tk[t] EXCEPT !.parts = Tail(@)]
           r == IF StripIsEmpty(part) THEN r0
                ELSE [Relay(r0, part) EXCEPT !.emulated_sent = TRUE]
       IN
       IF r.parts # <<>> THEN Set(t, r)
       ELSE IF ~r.emulated_sent
       THEN Set(t, [Relay(r, r.content) EXCEPT !.pc = "finalize"])
       ELSE Set(t, [r EXCEPT !.pc = "finalize"])
    /\ UNCHANGED <<limiter, ad, em, env, sub, sub0, lock, ver, impl, rt_model, rt_result>>

(***************************************************************************)
(* stream_generate of the adapters, one call of it.                        *)
(***************************************************************************)
AdapterClasses == {"openai", "anthropic", "gemini", "grok", "perplexity"}

\* a call of stream_generate that has not run yet: the adapter's class, whether
\* self.client is set (OpenAI, Anthropic), whether force_non_streaming is set (Gemini)
AdStart(cls, client, forced) ==
    [pc |-> "start", cls |-> cls, client |-> client, forced |-> forced,
     yielded |-> <<>>, up |-> 0, own_generate |-> 0, emulated |-> 0,
     upstream_exc |-> <<>>, exc |-> <<>>, parts |-> <<>>]

AdInit == [AdStart("", FALSE, FALSE) EXCEPT !.pc = "none"]

AdSet(r) ==
    /\ ad' = r
    /\ UNCHANGED <<limiter, em, env, sub, sub0, lock, ver, impl, tk, rt_model, rt_result>>

\* `if self.client is None: raise Exception("... client not available ...")`
adapter_client_missing ==
    /\ ad.pc = "start"
    /\ ad.cls \in {"openai", "anthropic"} /\ ~ad.client
    /\ AdSet([ad EXCEPT !.pc = "raised", !.exc = client_not_available])

\* the adapter can talk to its upstream
AdapterReady == (ad.cls \in {"openai", "anthropic"} => ad.client) /\ ~ad.forced

\* the upstream's stream carries a delta with text: `yield`
adapter_delta(d) ==
    /\ ad.pc \in {"start", "streaming"}
    /\ AdapterReady
    /\ ad.up < MaxDeltas
    /\ AdSet([ad EXCEPT !.pc = "streaming", !.up = @ + 1, !.yielded = Append(@, d)])

\* the upstream's stream ends
adapter_end ==
    /\ ad.pc \in {"start", "streaming"}
    /\ AdapterReady
    /\ AdSet([ad EXCEPT !.pc = "ended"])

\* the upstream rejects streaming or raises during the iteration: the `except
\* Exception` of stream_generate awaits self.generate
adapter_upstream_raise(msg) ==
    /\ ad.pc \in {"start", "streaming"}
    /\ AdapterReady
    /\ AdSet([ad EXCEPT !.pc = "own_generate", !.own_generate = @ + 1,
                        !.upstream_exc = msg])

\* GeminiProvider with force_non_streaming: stream_generate awaits self.generate at once
adapter_forced ==
    /\ ad.pc = "start"
    /\ ad.cls = "gemini" /\ ad.forced
    /\ AdSet([ad EXCEPT !.pc = "own_generate", !.own_generate = @ + 1])

\* self.generate returns: OpenAI, Anthropic, Grok and Perplexity yield the parts of
\* emulate_stream_text(content); Gemini yields the content as one piece (when forced,
\* only if it is not empty)
adapter_generate_return(content) ==
    /\ ad.pc = "own_generate"
    /\ IF ad.cls = "gemini"
       THEN IF ad.forced /\ content = <<>>
            THEN AdSet([ad EXCEPT !.pc = "ended"])
            ELSE AdSet([ad EXCEPT !.pc = "ended", !.emulated = @ + 1,
                                  !.yielded = Append(@, content)])
       ELSE IF content = <<>>
            THEN AdSet([ad EXCEPT !.pc = "ended"])
            ELSE AdSet([ad EXCEPT !.pc = "emulating",
                                  !.parts = emulate_stream_text(content)])

\* self.generate raises too: OpenAI, Anthropic and Gemini return, Grok and Perplexity
\* raise RuntimeError(f"... streaming error: {str(e)}") with the stream's exception
adapter_generate_raise(msg2) ==
    /\ ad.pc = "own_generate"
    /\ IF ad.cls \in {"grok", "perplexity"}
       THEN AdSet([ad EXCEPT !.pc = "raised", !.exc = ad.upstream_exc])
       ELSE AdSet([ad EXCEPT !.pc = "ended"])

\* `async for part in emulate_stream_text(content): yield part`
adapter_emulate_part ==
    /\ ad.pc = "emulating"
    /\ AdSet([ad EXCEPT !.parts = Tail(@), !.emulated = @ + 1,
                        !.yielded = Append(@, Head(ad.parts)),
                        !.pc = IF Tail(ad.parts) = <<>> THEN "ended" ELSE "emulating"])

(***************************************************************************)
(* The generator emulate_stream_text(text, chunk_size), one run of it.     *)
(***************************************************************************)
\* a run that has not started: pos and the slices yielded so far
EmStart(text, chunk_size) ==
    [pc |-> "start", text |-> text, chunk_size |-> chunk_size, pos |-> 0,
     out |-> <<>>, cancelled |-> FALSE, at_cancel |-> 0]

EmInit == [EmStart(<<>>, 1) EXCEPT !.pc = "none"]

EmSet(r) ==
    /\ em' = r
    /\ UNCHANGED <<limiter, ad, env, sub, sub0, lock, ver, impl, tk, rt_model, rt_result>>

\* text[pos:end] with end = min(pos + chunk_size, L)
EmSlice(r) == Slice(r.text, r.pos, Min(r.pos + r.chunk_size, Len(r.text)))

\* the first __anext__: `if not text: return`, else pos = 0 and the first `yield`
em_first ==
    /\ em.pc = "start"
    /\ IF em.text = <<>>
       THEN EmSet([em EXCEPT !.pc = "done"])
       ELSE EmSet([em EXCEPT !.pc = "yielded", !.out = Append(@, EmSlice(em))])

\* the consumer asks for the next part: `pos = end`, then the sleep `if pos < L`,
\* or the end of the `while pos < L`
em_resume ==
    /\ em.pc = "yielded"
    /\ LET end == Min(em.pos + em.chunk_size, Len(em.text)) IN
       IF end < Len(em.text)
       THEN EmSet([em EXCEPT !.pos = end, !.pc = "sleep"])
       ELSE EmSet([em EXCEPT !.pos = end, !.pc = "done"])

\* `await asyncio.sleep(delay)` returns: the next iteration yields its slice
em_wake ==
    /\ em.pc = "sleep"
    /\ EmSet([em EXCEPT !.pc = "yielded", !.out = Append(@, EmSlice(em))])

\* mutant: the cancellation is caught and the loop goes on
em_cancel_goes_on ==
    /\ em.pc = "sleep"
    /\ EmSet([em EXCEPT !.pc = "yielded", !.out = Append(@, EmSlice(em)),
                        !.cancelled = TRUE, !.at_cancel = Len(em.out)])

\* the sleep is cancelled: `except asyncio.CancelledError: return`
em_cancel ==
    /\ em.pc = "sleep"
    /\ EmSet([em EXCEPT !.pc = "done", !.cancelled = TRUE, !.at_cancel = Len(em.out)])

\* the caller goes away while event_stream runs.  The response task is cancelled:
\* asyncio.CancelledError is raised at the await the generator is suspended in, or
\* GeneratorExit at its yield; neither is an Exception, so no `except Exception` of
\* event_stream catches it and the generator ends there.  Only the sleep between two
\* parts of emulate_stream_text catches CancelledError and returns, which ends the
\* emulation loop normally (swallowed); whether a later await is cancelled again
\* depends on the server (anyio cancel scopes cancel again, a plain task.cancel()
\* does not), so event_stream may then run on or be cancelled at "finalize".
disconnect(t, swallowed) ==
    /\ \/ tk[t].pc \in {"stream", "fallback", "emulate", "silent", "emulate2"}
       \/ tk[t].pc = "finalize" /\ tk[t].kind = "stream" /\ tk[t].disconnected # ""
    /\ swallowed => /\ tk[t].pc \in {"emulate", "emulate2"}
                    /\ tk[t].parts # <<>>
                    /\ tk[t].parts # emulate_stream_text(tk[t].content)
    /\ LET r == [tk[t] EXCEPT !.disconnected = IF @ = "" THEN tk[t].pc ELSE @] IN
       IF ~swallowed
       THEN Set(t, [r EXCEPT !.pc = "closed",
                             !.gen_calls = IF tk[t].pc \in {"fallback", "silent"}
                                           THEN @ + 1 ELSE @])
       ELSE IF tk[t].pc = "emulate"
       THEN IF impl = "backend"
            THEN Set(t, [r EXCEPT !.parts = <<>>, !.full_response = r.content,
                                  !.pc = "finalize"])
            ELSE Set(t, AfterRelay([r EXCEPT !.parts = <<>>]))
       ELSE IF ~r.emulated_sent
       THEN Set(t, [Relay(r, r.content) EXCEPT !.parts = <<>>, !.pc = "finalize"])
       ELSE Set(t, [r EXCEPT !.parts = <<>>, !.pc = "finalize"])
    /\ UNCHANGED <<limiter, ad, em, env, sub, sub0, lock, ver, impl, rt_model, rt_result>>

(***************************************************************************)
(* Finalization and the credit ledger.                                     *)
(***************************************************************************)
\* credits_to_deduct of the request
AmountOf(r) ==
    IF r.kind = "stream"
    THEN Credits(r.estimated + count_tokens(r.provider, r.full_response), r.model)
    ELSE r.amt

\* mutant: a failed finalization is tried once more
FailedRetry(r) ==
    IF r.deducts < 2 THEN [r EXCEPT !.pc = "finalize"] ELSE [r EXCEPT !.pc = "closed"]

\* how the handler ends when finalization raises
Failed(r) ==
    CASE r.kind = "stream" -> [r EXCEPT !.pc = "closed", !.fin_raised = TRUE]   \* print(...) only
      [] r.kind = "chat" -> [r EXCEPT !.pc = "closed", !.http = 500, !.fin_raised = TRUE]
      [] OTHER -> [r EXCEPT !.pc = "closed", !.http = 400, !.fin_raised = TRUE]

\* what the session holds after the SELECT: an object still in its identity map is
\* returned as it is, otherwise the committed row is loaded
Loaded(r, kept) == IF kept THEN r ELSE [r EXCEPT !.obj = sub, !.objVer = ver]

\* deduct_credits_atomic up to the balance check: SELECT ... FOR UPDATE, then
\* `if subscription.credits_remaining < credits: raise ValueError`
deduct_select(t, kept) ==
    /\ impl = "backend"
    /\ tk[t].pc = "finalize"
    /\ lock = 0
    /\ tk[t].kind = "chat" => kept
    /\ tk[t].kind = "use" => ~kept
    /\ LET credits == AmountOf(tk[t])
           l == Loaded(tk[t], kept)
           r == [l EXCEPT !.deducts = @ + 1, !.amt = credits,
                          !.seen = l.obj.credits_remaining, !.seenVer = l.objVer]
       IN
       IF ~r.obj.present \/ r.obj.credits_remaining < credits
       THEN Set(t, Failed(r)) /\ UNCHANGED lock
       ELSE Set(t, [r EXCEPT !.pc = "locked", !.passed = TRUE]) /\ lock' = t
    /\ UNCHANGED <<limiter, ad, em, env, sub, sub0, ver, impl, rt_model, rt_result>>

\* deduct_credits_atomic from the assignments on: commit (the UPDATE of the changed
\* columns, releasing the lock) and refresh
deduct_commit(t) ==
    /\ tk[t].pc = "locked"
    /\ lock = t
    /\ LET o == tk[t].obj
           new == [o EXCEPT !.credits_used = @ + tk[t].amt,
                            !.credits_remaining = @ - tk[t].amt]
           row == Flush(sub, o, new)
           v == IF row # sub THEN ver + 1 ELSE ver
       IN
       /\ sub' = row
       /\ ver' = v
       /\ Set(t, [tk[t] EXCEPT !.obj = row, !.objVer = v, !.paid = tk[t].amt,
                               !.pc = IF tk[t].kind = "use" THEN "closed" ELSE "persist",
                               !.http = IF tk[t].kind = "use" THEN 200 ELSE @])
    /\ lock' = 0
    /\ UNCHANGED <<limiter, ad, em, env, sub0, impl, rt_model, rt_result>>

\* mutant: the done event reports the row as it is committed when the event is built
persist_row(t, ok) ==
    /\ tk[t].pc = "persist"
    /\ IF ~ok THEN \E n \in 0..2 : Set(t, [Failed(tk[t]) EXCEPT !.saved = n])
       ELSE IF tk[t].kind = "stream"
       THEN Set(t, [Emit(tk[t], Done(sub)) EXCEPT !.pc = "closed", !.usage = @ + 1,
                                                          !.saved = 2])
       ELSE Set(t, [tk[t] EXCEPT !.pc = "closed", !.http = 200, !.usage = @ + 1,
                                 !.saved = 2])
    /\ UNCHANGED <<limiter, ad, em, env, sub, sub0, lock, ver, impl, rt_model, rt_result>>

\* ensure_conversation, save_message, track_usage (the usage record), and then the done
\* event (stream) or the ChatResponse (chat), both built from the object the deduction
\* returned; any of the awaited calls can raise
persist(t, ok) ==
    /\ tk[t].pc = "persist"
    /\ IF ~ok THEN \E n \in 0..2 : Set(t, [Failed(tk[t]) EXCEPT !.saved = n])
       ELSE IF tk[t].kind = "stream"
       THEN Set(t, [Emit(tk[t], Done(tk[t].obj)) EXCEPT !.pc = "closed", !.usage = @ + 1,
                                                          !.saved = 2])
       ELSE Set(t, [tk[t] EXCEPT !.pc = "closed", !.http = 200, !.usage = @ + 1,
                                 !.saved = 2])
    /\ UNCHANGED <<limiter, ad, em, env, sub, sub0, lock, ver, impl, rt_model, rt_result>>

\* deduct_credits of the in-memory orchestrator: the subscription after the deduction
deduct_credits(subscription, credits) ==
    [subscription EXCEPT !.credits_used = @ + credits, !.credits_remaining = @ - credits]

\* in-memory orchestrator: finalization, which awaits nothing
finalize_app(t) ==
    /\ impl = "app"
    /\ tk[t].pc = "finalize"
    /\ tk[t].kind = "stream"
    /\ LET tokens == tk[t].estimated + count_tokens(tk[t].provider, tk[t].full_response)
           credits == (tokens * MilliMultiplierApp(tk[t].model)) \div 1000
           r == [tk[t] EXCEPT !.deducts = @ + 1, !.amt = credits,
                              !.seen = sub.credits_remaining]
       IN
       IF sub.credits_remaining < credits
       THEN /\ Set(t, [Emit(r, Error("server_error", <<>>)) EXCEPT !.pc = "closed",
                                                                  !.fin_raised = TRUE])
            /\ UNCHANGED <<sub, ver>>
       ELSE /\ sub' = deduct_credits(sub, credits)
            /\ ver' = IF sub' # sub THEN ver + 1 ELSE ver
            /\ Set(t, [Emit(r, Done(sub')) EXCEPT !.pc = "closed", !.passed = TRUE,
                                                  !.paid = credits, !.obj = sub',
                                                  !.usage = @ + 1, !.saved = 1])
    /\ UNCHANGED <<limiter, ad, em, env, sub0, lock, impl, rt_model, rt_result>>

\* POST /chat/: `await provider.generate(...)` returns, reporting total_tokens
chat_generate_return(t, total_tokens) ==
    /\ tk[t].pc = "generate"
    /\ ~ClientMissing(tk[t])
    /\ Set(t, [tk[t] EXCEPT !.gen_calls = @ + 1, !.pc = "finalize",
                            !.amt = Credits(total_tokens, tk[t].model)])
    /\ UNCHANGED <<limiter, ad, em, env, sub, sub0, lock, ver, impl, rt_model, rt_result>>

\* POST /chat/: generate raises, `except Exception` answers 500
chat_generate_raise(t, msg) ==
    /\ tk[t].pc = "generate"
    /\ GenerateCanRaise(tk[t], msg)
    /\ Set(t, [tk[t] EXCEPT !.gen_calls = @ + 1, !.pc = "closed", !.http = 500,
                            !.exc = msg])
    /\ UNCHANGED <<limiter, ad, em, env, sub, sub0, lock, ver, impl, rt_model, rt_result>>

\* POST /chat/ of the in-memory orchestrator, up to the call of provider.generate
chat_app(t, model, est, max_tokens) ==
    /\ impl = "app"
    /\ tk[t].pc = "idle"
    /\ \E user_id \in BOOLEAN :
       LET r == Opened(t, "chat", ProviderClassApp(model), model, est, max_tokens)
           limit == rate_limit_per_minute(sub.plan)
           res == check_rate_limit(rate_limiter[tenant], limit, now)
       IN
       IF ~user_id
       THEN /\ Set(t, [r EXCEPT !.pc = "closed", !.http = 400])
            /\ UNCHANGED <<rate_limiter, rl_call, admissions>>
       ELSE IF ~sub.present
       THEN /\ Set(t, [r EXCEPT !.pc = "closed", !.http = 404])
            /\ UNCHANGED <<rate_limiter, rl_call, admissions>>
       ELSE IF sub.status # "active" \/ model \notin allowed_models_app(sub.plan)
       THEN /\ Set(t, [r EXCEPT !.pc = "closed", !.http = 403])
            /\ UNCHANGED <<rate_limiter, rl_call, admissions>>
       ELSE /\ rate_limiter' = [rate_limiter EXCEPT ![tenant] = res.window]
            /\ rl_call' = Call(tenant, limit, res)
            /\ admissions' = Logged(tenant, limit, res)
            /\ IF res.raised
               THEN Set(t, [r EXCEPT !.pc = "closed", !.http = 429])
               ELSE IF create_provider_app(model, env) \in Raises
               THEN Set(t, [r EXCEPT !.pc = "closed", !.http = 500])
               ELSE IF ~check_credits_available(sub, est + max_tokens, model)
               THEN Set(t, [r EXCEPT !.pc = "closed", !.http = 402])
               ELSE Set(t, [r EXCEPT !.pc = "generate_app", !.admitted = TRUE])
    /\ UNCHANGED <<user_last_request, subscriptions_db, now, ad, em, env, sub, sub0, lock,
                   ver, impl, rt_model, rt_result>>

\* POST /chat/ of the in-memory orchestrator: generate returns a result
chat_app_generate_return(t, total_tokens) ==
    /\ tk[t].pc = "generate_app"
    /\ ~ClientMissing(tk[t])
    /\ Set(t, [tk[t] EXCEPT !.gen_calls = @ + 1, !.pc = "finalize",
                            !.amt = (total_tokens * MilliMultiplierApp(tk[t].model))
                                        \div 1000])
    /\ UNCHANGED <<limiter, ad, em, env, sub, sub0, lock, ver, impl, rt_model, rt_result>>

\* POST /chat/ of the in-memory orchestrator: the deduction, the cost and usage records,
\* the message and the response, which await nothing
chat_app_finalize(t) ==
    /\ impl = "app"
    /\ tk[t].pc = "finalize"
    /\ tk[t].kind = "chat"
    /\ LET credits == tk[t].amt
           r == [tk[t] EXCEPT !.deducts = @ + 1, !.seen = sub.credits_remaining] IN
       IF sub.credits_remaining < credits
       THEN /\ Set(t, [r EXCEPT !.pc = "closed", !.http = 500, !.fin_raised = TRUE])
            /\ UNCHANGED <<sub, ver>>
       ELSE /\ sub' = deduct_credits(sub, credits)
            /\ ver' = IF sub' # sub THEN ver + 1 ELSE ver
            /\ Set(t, [r EXCEPT !.pc = "closed", !.http = 200, !.passed = TRUE,
                                !.paid = credits, !.obj = sub', !.usage = @ + 1,
                                !.saved = 1])
    /\ UNCHANGED <<limiter, ad, em, env, sub0, lock, impl, rt_model, rt_result>>

\* mutant: a failed generate is billed by the pre-check estimate
chat_app_generate_raise_billed(t, msg) ==
    /\ tk[t].pc = "generate_app"
    /\ GenerateCanRaise(tk[t], msg)
    /\ sub' = deduct_credits(sub, Min(sub.credits_remaining, 1))
    /\ Set(t, [tk[t] EXCEPT !.gen_calls = @ + 1, !.pc = "closed", !.http = 500,
                            !.exc = msg])
    /\ UNCHANGED <<limiter, ad, em, env, sub0, lock, ver, impl, rt_model, rt_result>>

\* POST /chat/ of the in-memory orchestrator: generate raises, `except Exception`
\* answers 500
chat_app_generate_raise(t, msg) ==
    /\ tk[t].pc = "generate_app"
    /\ GenerateCanRaise(tk[t], msg)
    /\ Set(t, [tk[t] EXCEPT !.gen_calls = @ + 1, !.pc = "closed", !.http = 500,
                            !.exc = msg])
    /\ UNCHANGED <<limiter, ad, em, env, sub, sub0, lock, ver, impl, rt_model, rt_result>>

\* POST /subscriptions/me/use-credits up to deduct_credits_atomic
use_credits(t, credits) ==
    /\ impl = "backend"
    /\ tk[t].pc = "idle"
    /\ IF credits <= 0
       THEN Set(t, [tk[t] EXCEPT !.kind = "use", !.pc = "closed", !.http = 400])
       ELSE Set(t, [tk[t] EXCEPT !.kind = "use", !.pc = "finalize", !.amt = credits])
    /\ UNCHANGED <<limiter, ad, em, env, sub, sub0, lock, ver, impl, rt_model, rt_result>>

\* POST /subscriptions/me/add-credits up to the commit: the unlocked read and the
\* assignments
add_credits(t, credits) ==
    /\ impl = "backend"
    /\ tk[t].pc = "idle"
    /\ IF credits <= 0
       THEN Set(t, [tk[t] EXCEPT !.kind = "add", !.pc = "closed", !.http = 400])
       ELSE IF ~sub.present
       THEN Set(t, [tk[t] EXCEPT !.kind = "add", !.pc = "closed", !.http = 404])
       ELSE Set(t, [tk[t] EXCEPT !.kind = "add", !.pc = "write", !.amt = credits,
                                 !.obj = sub, !.objVer = ver])
    /\ UNCHANGED <<limiter, ad, em, env, sub, sub0, lock, ver, impl, rt_model, rt_result>>

\* add_credits: `await db.commit()`, the UPDATE of the changed columns
add_credits_commit(t) ==
    /\ tk[t].pc = "write"
    /\ tk[t].kind = "add"
    /\ lock = 0
    /\ LET o == tk[t].obj
           new == [o EXCEPT !.credits_remaining = @ + tk[t].amt,
                            !.credits_limit = @ + tk[t].amt]
       IN
       /\ sub' = Flush(sub, o, new)
       /\ ver' = IF sub' # sub THEN ver + 1 ELSE ver
       /\ Set(t, [tk[t] EXCEPT !.obj = new, !.pc = "closed", !.http = 200])
    /\ UNCHANGED <<limiter, ad, em, env, sub0, lock, impl, rt_model, rt_result>>

\* POST /subscriptions/me/upgrade up to the commit
upgrade_subscription(t, tier) ==
    /\ impl = "backend"
    /\ tk[t].pc = "idle"
    /\ IF tier \notin Plans
       THEN Set(t, [tk[t] EXCEPT !.kind = "upgrade", !.pc = "closed", !.http = 400])
       ELSE IF ~sub.present
       THEN Set(t, [tk[t] EXCEPT !.kind = "upgrade", !.pc = "closed", !.http = 404])
       ELSE Set(t, [tk[t] EXCEPT !.kind = "upgrade", !.pc = "write",
                                 !.obj = sub, !.objVer = ver, !.tier = tier])
    /\ UNCHANGED <<limiter, ad, em, env, sub, sub0, lock, ver, impl, rt_model, rt_result>>

\* upgrade_subscription: `await db.commit()`
upgrade_commit(t) ==
    /\ tk[t].pc = "write"
    /\ tk[t].kind = "upgrade"
    /\ lock = 0
    /\ LET o == tk[t].obj
           tier == tk[t].tier
           new == [o EXCEPT !.plan = tier,
                            !.credits_limit = credits_per_month(tier),
                            !.credits_remaining = credits_per_month(tier) - o.credits_used]
       IN
       /\ sub' = Flush(sub, o, new)
       /\ ver' = IF sub' # sub THEN ver + 1 ELSE ver
       /\ Set(t, [tk[t] EXCEPT !.obj = sub', !.pc = "closed", !.http = 200])
    /\ UNCHANGED <<limiter, ad, em, env, sub0, lock, impl, rt_model, rt_result>>

(***************************************************************************)
(* Specifications.                                                         *)
(***************************************************************************)
\* the rows a tenant of the plan can have after use-credits calls
Rows ==
    UNION {{Row("active", p, credits_per_month(p), u, credits_per_month(p) - u) :
               u \in 0..credits_per_month(p)} : p \in Plans}

Models == {gpt_35_turbo, claude_3_haiku, grok_beta, mock}

StreamEnvs == {EnvAll, [EnvAll EXCEPT !.openai_sdk = FALSE]}

\* no request yet: rate_limiter = defaultdict(list), user_last_request =
\* defaultdict(float), and a clock far from 0.0
LimiterInit ==
    /\ rate_limiter = [u \in Users |-> <<>>]
    /\ user_last_request = [u \in Users |-> 0]
    /\ subscriptions_db = [u \in Users |-> "free"]
    /\ now = Minute
    /\ rl_call = NoCall
    /\ admissions = [u \in Users |-> <<>>]

InitCommon ==
    /\ sub0 = sub
    /\ lock = 0
    /\ ver = 0
    /\ tk = [t \in Tasks |-> TaskInit]
    /\ rt_model = <<>>
    /\ rt_result = ""
    /\ LimiterInit
    /\ ad = AdInit
    /\ em = EmInit

\* one streaming request of a tenant, against either orchestrator
Init ==
    /\ env \in StreamEnvs
    /\ sub \in Rows
    /\ impl \in {"backend", "app"}
    /\ InitCommon

Next ==
    \/ \E model \in Models, est \in 1..MaxPrompt, max_tokens \in 0..MaxTok :
          stream_chat(1, model, est, max_tokens)
    \/ \E model \in Models, est \in 1..MaxPrompt, max_tokens \in 0..MaxTok :
          stream_chat_app(1, model, est, max_tokens)
    \/ \E model \in Models, est \in 1..MaxPrompt, max_tokens \in 1..MaxTok :
          chat(1, model, est, max_tokens)
    \/ \E total_tokens \in 1..(MaxPrompt + MaxTok) : chat_generate_return(1, total_tokens)
    \/ \E msg \in UpstreamErrors \cup {client_not_available} : chat_generate_raise(1, msg)
    \/ \E model \in Models, est \in 1..MaxPrompt, max_tokens \in 1..MaxTok :
          chat_app(1, model, est, max_tokens)
    \/ \E total_tokens \in 1..(MaxPrompt + MaxTok) :
          chat_app_generate_return(1, total_tokens)
    \/ \E msg \in UpstreamErrors \cup {client_not_available} :
          chat_app_generate_raise(1, msg)
    \/ chat_app_finalize(1)
    \/ \E d \in Deltas : stream_delta(1, d)
    \/ stream_end(1)
    \/ \E msg \in UpstreamErrors \cup {client_not_available} : stream_raise(1, msg)
    \/ \E content \in Contents : fallback_return(1, content)
    \/ \E msg \in UpstreamErrors \cup {client_not_available} : fallback_raise(1, msg)
    \/ emulate_part(1)
    \/ \E content \in Contents : silent_return(1, content)
    \/ \E msg \in UpstreamErrors \cup {client_not_available} : silent_raise(1, msg)
    \/ emulate2_part(1)
    \/ \E swallowed \in BOOLEAN : disconnect(1, swallowed)
    \/ \E kept \in BOOLEAN : deduct_select(1, kept)
    \/ deduct_commit(1)
    \/ \E ok \in BOOLEAN : persist(1, ok)
    \/ finalize_app(1)

Spec == Init /\ [][Next]_vars

\* concurrent requests of one tenant against the database ledger: deductions only
InitDeduct ==
    /\ env = EnvAll
    /\ sub \in Rows
    /\ impl = "backend"
    /\ InitCommon

NextDeduct ==
    \E t \in Tasks :
        \/ \E est \in 1..MaxPrompt, max_tokens \in 1..MaxTok :
              stream_chat(t, gpt_35_turbo, est, max_tokens)
        \/ \E est \in 1..MaxPrompt, max_tokens \in 1..MaxTok :
              chat(t, gpt_35_turbo, est, max_tokens)
        \/ \E credits \in 0..MaxAdd : use_credits(t, credits)
        \/ stream_delta(t, <<"h","i">>)
        \/ stream_end(t)
        \/ \E total_tokens \in 1..(MaxPrompt + MaxTok) : chat_generate_return(t, total_tokens)
        \/ chat_generate_raise(t, boom)
        \/ \E kept \in BOOLEAN : deduct_select(t, kept)
        \/ deduct_commit(t)
        \/ \E ok \in BOOLEAN : persist(t, ok)

SpecDeduct == InitDeduct /\ [][NextDeduct]_vars

\* the same with the plan-change operations
NextLedger ==
    \/ NextDeduct
    \/ \E t \in Tasks :
        \/ \E credits \in 0..MaxAdd : add_credits(t, credits)
        \/ add_credits_commit(t)
        \/ \E tier \in Plans \cup {"gold"} : upgrade_subscription(t, tier)
        \/ upgrade_commit(t)

SpecLedger == InitDeduct /\ [][NextLedger]_vars

\* create_provider applied to a model identifier under a process configuration
InitRouter ==
    /\ sub0 = NewRow("free")
    /\ lock = 0
    /\ ver = 0
    /\ tk = [t \in Tasks |-> TaskInit]
    /\ sub = NewRow("free")
    /\ impl \in {"backend", "app"}
    /\ env \in Envs
    /\ rt_model \in RouterInputs
    /\ rt_result = ""
    /\ LimiterInit
    /\ ad = AdInit
    /\ em = EmInit

route ==
    /\ rt_result = ""
    /\ impl = "backend"
    /\ rt_result' = create_provider(rt_model, env)
    /\ UNCHANGED <<limiter, ad, em, env, sub, sub0, lock, ver, impl, tk, rt_model>>

route_app ==
    /\ rt_result = ""
    /\ impl = "app"
    /\ rt_result' = create_provider_app(rt_model, env)
    /\ UNCHANGED <<limiter, ad, em, env, sub, sub0, lock, ver, impl, tk, rt_model>>

NextRouter == route \/ route_app

SpecRouter == InitRouter /\ [][NextRouter]_vars

\* the rate limiter under requests of several users, tier changes and passing time
InitLimiter ==
    /\ env = EnvAll
    /\ sub = NewRow("free")
    /\ impl = "app"
    /\ InitCommon

NextLimiter ==
    \/ \E user_id \in Users : limited_request(user_id)
    \/ \E user_id \in Users, tier \in Plans : upgrade_subscription_app(user_id, tier)
    \/ tick

SpecLimiter == InitLimiter /\ [][NextLimiter]_vars

\* the entitlement guard: requests of one tenant, one after the other, against either
\* orchestrator; the tenant's subscription may be missing, expired or suspended
AdmitRows ==
    Rows \cup {NoObj} \cup {Row(st, "pro", ProCredits, 0, ProCredits) : st \in {"expired", "suspended"}}

InitAdmit ==
    /\ env = EnvAll
    /\ sub \in AdmitRows
    /\ impl \in {"backend", "app"}
    /\ InitCommon

NextAdmit ==
    \/ \E t \in Tasks, model \in Models, est \in 1..MaxPrompt :
          stream_chat(t, model, est, MaxTok)
    \/ \E t \in Tasks, model \in Models, est \in 1..MaxPrompt :
          stream_chat_app(t, model, est, MaxTok)
    \/ tick

SpecAdmit == InitAdmit /\ [][NextAdmit]_vars

\* one call of stream_generate of each adapter against an upstream that streams,
\* rejects streaming, fails during the stream, or fails altogether
InitAdapter ==
    /\ env = EnvAll
    /\ sub = NewRow("free")
    /\ sub0 = sub
    /\ impl = "backend"
    /\ lock = 0
    /\ ver = 0
    /\ tk = [t \in Tasks |-> TaskInit]
    /\ rt_model = <<>>
    /\ rt_result = ""
    /\ LimiterInit
    /\ ad \in {AdStart(cls, client, forced) :
                  cls \in AdapterClasses, client \in BOOLEAN, forced \in BOOLEAN}
    /\ ad.cls \notin {"openai", "anthropic"} => ad.client
    /\ ad.cls # "gemini" => ~ad.forced
    /\ em = EmInit

NextAdapter ==
    \/ adapter_client_missing
    \/ \E d \in Deltas : adapter_delta(d)
    \/ adapter_end
    \/ \E msg \in UpstreamErrors : adapter_upstream_raise(msg)
    \/ adapter_forced
    \/ \E content \in Contents : adapter_generate_return(content)
    \/ \E msg2 \in UpstreamErrors : adapter_generate_raise(msg2)
    \/ adapter_emulate_part

SpecAdapter == InitAdapter /\ [][NextAdapter]_vars

\* emulate_stream_text on every text of up to MaxLen characters with every chunk_size
\* up to MaxChunk, consumed to its end (the consumer's `async for` keeps asking, and
\* the sleep returns or is cancelled)
EmTexts == UNION {[1..n -> {"a", " "}] : n \in 0..MaxLen}

InitEmulate ==
    /\ env = EnvAll
    /\ sub = NewRow("free")
    /\ sub0 = sub
    /\ impl = "backend"
    /\ lock = 0
    /\ ver = 0
    /\ tk = [t \in Tasks |-> TaskInit]
    /\ rt_model = <<>>
    /\ rt_result = ""
    /\ LimiterInit
    /\ ad = AdInit
    /\ em \in {EmStart(text, chunk_size) : text \in EmTexts, chunk_size \in 1..MaxChunk}

NextEmulate == em_first \/ em_resume \/ em_wake \/ em_cancel

SpecEmulate == InitEmulate /\ [][NextEmulate]_vars /\ WF_vars(NextEmulate)

(***************************************************************************)
(* Properties.                                                             *)
(***************************************************************************)
ChunkText(events) ==
    Concat([i \in 1..Len(SelectSeq(events, LAMBDA e : e.type = "chunk")) |->
               SelectSeq(events, LAMBDA e : e.type = "chunk")[i].content])

Terminal(e) == e.type \in {"done", "error"}

LastType(events) == IF events = <<>> THEN "none" ELSE events[Len(events)].type

RECURSIVE SumPaid(_)
SumPaid(n) == IF n = 0 THEN 0 ELSE tk[n].paid + SumPaid(n - 1)

Quiet == \A t \in Tasks : tk[t].pc \in {"idle", "closed"}

\* C1: under every interleaving of concurrent deductions of one tenant,
\* credits_remaining is never negative, and no two deductions pass the sufficiency
\* check against the same pre-deduction balance when their sum exceeds that balance.
C1_NoJointOverdraw ==
    /\ sub.credits_remaining >= 0
    /\ \A t1, t2 \in Tasks :
          (t1 # t2 /\ tk[t1].passed /\ tk[t2].passed /\ tk[t1].seenVer = tk[t2].seenVer)
              => tk[t1].amt + tk[t2].amt <= tk[t1].seen

\* C2: once all deduct calls have returned, credits_remaining is the initial value
\* minus the sum of the amounts of the deductions that succeeded.
C2_FinalBalance ==
    Quiet => sub.credits_remaining = sub0.credits_remaining - SumPaid(NTasks)

\* C3: in every event stream the caller observes, only chunk events precede the last
\* event, and once the stream is closed its last event is the one terminal event
\* (done or error).
C3_OneTerminalEvent ==
    \A t \in Tasks :
        (tk[t].kind = "stream" /\ tk[t].http = 200) =>
            /\ \A i \in 1..(Len(tk[t].events) - 1) : tk[t].events[i].type = "chunk"
            /\ tk[t].pc = "closed" =>
                  /\ tk[t].events # <<>>
                  /\ Terminal(tk[t].events[Len(tk[t].events)])

\* C4: whenever the database orchestrator admits a request, credits_remaining at
\* admission is at least multiplier(model) x (estimated prompt tokens + max_tokens),
\* fractional multipliers included.
C4_AdmittedCanPay ==
    \A t \in Tasks :
        (impl = "backend" /\ tk[t].admitted) =>
            1000 * tk[t].admittedAt
                >= MilliMultiplier(tk[t].model) * (tk[t].estimated + tk[t].max_tokens)

\* C5: when two concurrent streaming requests of one tenant were both admitted at
\* balance B and each needs c credits at finalization with c <= B < 2c, then once
\* both are over exactly one ended with done, the other ended with a terminal error
\* event, and the balance is B - c.
C5_LoserSeesError ==
    \A t1, t2 \in Tasks :
        ( /\ t1 # t2
          /\ \A t \in {t1, t2} :
                /\ tk[t].kind = "stream" /\ tk[t].admitted /\ tk[t].pc = "closed"
                /\ tk[t].admittedAt = sub0.credits_remaining
                /\ tk[t].deducts = 1 /\ tk[t].amt = tk[t1].amt
          /\ tk[t1].amt <= sub0.credits_remaining
          /\ sub0.credits_remaining < 2 * tk[t1].amt )
        => \E w, l \in {t1, t2} :
              /\ w # l
              /\ LastType(tk[w].events) = "done"
              /\ LastType(tk[l].events) = "error"
              /\ sub.credits_remaining = sub0.credits_remaining - tk[t1].amt

\* C6: when the adapter's stream yields nothing (it raises a non-quota error before
\* any delta, or it ends empty), generate is asked, and if it returns non-empty
\* content C the chunk contents the caller observes concatenate to C.
C6_FallbackReproducesContent ==
    \A t \in Tasks :
        ( /\ tk[t].kind = "stream" /\ tk[t].up = 0
          /\ tk[t].pc \in {"finalize", "locked", "persist", "closed"}
          /\ tk[t].admitted
          /\ \A i \in 1..Len(tk[t].events) : tk[t].events[i].type # "error" )
        => /\ tk[t].gen_calls >= 1
           /\ tk[t].content # <<>> => ChunkText(tk[t].events) = tk[t].content

\* C7: a non-quota exception of the stream before any chunk leads to the fallback
\* generate; if that raises too the caller has received exactly one event, an
\* error event of kind llm_error carrying an upstream error, and no done event.
C7_DoubleFailureOneError ==
    \A t \in Tasks :
        /\ tk[t].raised0 => (tk[t].pc = "fallback" \/ tk[t].gen_calls >= 1)
        /\ (tk[t].raised0 /\ tk[t].fallback_raised) =>
              /\ tk[t].pc = "closed"
              /\ Len(tk[t].events) = 1
              /\ tk[t].events[1].type = "error"
              /\ tk[t].events[1].error = "llm_error"
              /\ tk[t].events[1].content \in {tk[t].exc, tk[t].exc2}

C7_Witness ==
    \E t \in Tasks : tk[t].raised0 /\ tk[t].fallback_raised /\ tk[t].pc = "closed"

\* C8: create_provider returns an adapter for every model identifier, the empty one,
\* a missing one and unrecognized ones included, under every configuration of keys
\* and SDKs: it never raises.
C8_RouterTotal == rt_result \notin Raises

\* C9: credits_used + credits_remaining = credits_limit in every reachable state,
\* under every interleaving of deductions, add-credits and tier changes.
C9_CreditInvariant == sub.credits_used + sub.credits_remaining = sub.credits_limit

\* C10: a request calls the ledger's deduction at most once, and only from
\* finalization, after its stream (real or emulated) or its generate call has ended;
\* the row's credit columns change in no step of admission, dispatch or relay.
C10_DeductOnceAfterStream ==
    [][\A t \in Tasks :
          /\ tk'[t].deducts # tk[t].deducts =>
                (tk[t].pc = "finalize" /\ tk[t].deducts = 0 /\ tk'[t].deducts = 1)
          /\ (tk[t].pc \in {"idle", "stream", "fallback", "emulate", "silent", "emulate2",
                            "generate"} /\ tk'[t] # tk[t]) => sub' = sub]_vars

C10_Witness ==
    \E t \in Tasks :
        /\ tk[t].kind = "stream" /\ tk[t].pc = "closed" /\ tk[t].deducts = 1
        /\ tk[t].paid > 0
        /\ tk[t].any_chunk_sent
        /\ LastType(tk[t].events) = "done"

\* C11: a streaming request that relayed at least one chunk and whose stream then
\* raised (a quota or rate-limit failure included) has, once it is over, called the
\* ledger's deduction exactly once.
C11_PartialStreamPaid ==
    \A t \in Tasks :
        ( /\ tk[t].kind = "stream" /\ tk[t].pc = "closed"
          /\ tk[t].any_chunk_sent /\ tk[t].exc # <<>> )
        => tk[t].deducts = 1

\* C12: when the stream raised an exception whose message contains, in any case, one
\* of quota, rate, limit, exhausted, generate is never called for the request: the
\* request is over and its last event is an error event.
C12_KeywordSuppressesFallback ==
    \A t \in Tasks :
        ( /\ tk[t].kind = "stream" /\ tk[t].exc # <<>>
          /\ \E key \in {kw_quota, kw_rate, kw_limit, kw_exhausted} :
                Contains(lower(tk[t].exc), key) )
        => /\ tk[t].gen_calls = 0
           /\ tk[t].pc = "closed"
           /\ LastType(tk[t].events) = "error"

\* C13: when a step of the finalization of a streaming request raised, the request
\* is over, its last event is an error event of kind server_error, and it holds no
\* done event.
C13_FinalizationErrorReported ==
    \A t \in Tasks :
        (tk[t].kind = "stream" /\ tk[t].fin_raised) =>
            /\ tk[t].pc = "closed"
            /\ LastType(tk[t].events) = "error"
            /\ tk[t].events[Len(tk[t].events)].error = "server_error"
            /\ \A i \in 1..Len(tk[t].events) : tk[t].events[i].type # "done"

\* C14: a streaming request whose caller went away while chunks were being relayed
\* (from the adapter's stream or from the emulation), after at least one chunk, has,
\* once it is over, called the ledger's deduction exactly once.
C14_DisconnectStillFinalizes ==
    \A t \in Tasks :
        ( /\ tk[t].disconnected \in {"stream", "emulate", "emulate2"}
          /\ tk[t].any_chunk_sent
          /\ tk[t].pc = "closed" )
        => tk[t].deducts = 1

\* what the last call of the limiter did: it kept of its user's window the timestamps
\* newer than the call's time minus the minute, raised iff not fewer than the ceiling
\* were left, appended the call's time iff it did not raise, and left the windows of
\* the other users as they were
AdmitAsSpecified ==
    LET u == rl_call.user_id
        kept == SelectSeq(rl_call.before[u], LAMBDA ts : ts > rl_call.at - Minute)
    IN
    /\ ~rl_call.raised <=> Len(kept) < rl_call.rate_limit_per_minute
    /\ rate_limiter[u] = IF rl_call.raised THEN kept ELSE Append(kept, rl_call.at)
    /\ \A v \in Users \ {u} : rate_limiter[v] = rl_call.before[v]

\* C15 as stated: the limiter prunes, admits iff the remaining count is below the
\* ceiling, appends only on admission, touches only its tenant's window, and after
\* every call the tenant's window is no longer than the call's ceiling.
C15_WindowWithinCeilingAlways ==
    rl_call.user_id # 0 =>
        /\ AdmitAsSpecified
        /\ Len(rate_limiter[rl_call.user_id]) <= rl_call.rate_limit_per_minute

\* C15, amended: the same, with the window no longer than the ceiling after every
\* admitted call, and no longer than it was after a rejected one.
C15_RateWindow ==
    rl_call.user_id # 0 =>
        /\ AdmitAsSpecified
        /\ ~rl_call.raised =>
              Len(rate_limiter[rl_call.user_id]) <= rl_call.rate_limit_per_minute
        /\ rl_call.raised =>
              Len(rate_limiter[rl_call.user_id]) <= Len(rl_call.before[rl_call.user_id])

C15_Witness ==
    /\ rl_call.user_id # 0
    /\ rl_call.raised
    /\ Len(rate_limiter[rl_call.user_id]) < Len(rl_call.before[rl_call.user_id])
    /\ \E v \in Users \ {rl_call.user_id} : rate_limiter[v] # <<>>

\* the checks of the guard the order is stated for
Checks == {"existence", "status", "allow_list", "rate_limiter", "credits"}

Position(check) ==
    CASE check = "existence" -> 1 [] check = "status" -> 2 [] check = "allow_list" -> 3
      [] check = "rate_limiter" -> 4 [] check = "credits" -> 5 [] OTHER -> 4

\* the check would pass for the request of r against the state
Passes(check, r) ==
    CASE check = "existence" -> sub.present
      [] check = "status" -> sub.status = "active"
      [] check = "allow_list" ->
            r.model \in (IF impl = "backend" THEN allowed_models(sub.plan)
                         ELSE allowed_models_app(sub.plan))
      [] check = "rate_limiter" ->
            Len(SelectSeq(rate_limiter[tenant], LAMBDA ts : ts > now - Minute))
                < rate_limit_per_minute(sub.plan)
      [] OTHER -> TRUE

\* C16: when the guard rejects a request, the check that failed is the first in the
\* order existence, status, allow-list, rate limiter, credits that fails; no other of
\* the five checks is reported with the same error kind; and a request that fails
\* before the rate limiter leaves every rate window as it was.
C16_KindIdentifiesFirstFailure ==
    [][\A t \in Tasks :
          (tk[t].pc = "idle" /\ tk'[t].failed_check # "") =>
              LET failed == tk'[t].failed_check IN
              /\ \A c \in Checks \ {failed} : ErrorKind(c) # tk'[t].events[1].error
              /\ \A c \in Checks : Position(c) < Position(failed) => Passes(c, tk'[t])
              /\ Position(failed) < Position("rate_limiter") => rate_limiter' = rate_limiter]_vars

\* C17: a request the guard rejects (invalid body included) has called neither
\* stream_generate nor generate, leaves the subscription row as it was and takes no
\* further step (no deduction, no usage record); a rejection by the rate limiter
\* changes nothing but the tenant's rate window.
C17_RejectionHasNoEffect ==
    [][\A t \in Tasks :
          /\ (tk[t].pc = "idle" /\ tk'[t].pc = "closed" /\ tk'[t].events # <<>>) =>
                /\ sub' = sub
                /\ tk'[t].gen_calls = 0 /\ tk'[t].up = 0 /\ tk'[t].deducts = 0
                /\ Len(tk'[t].events) = 1
          /\ (tk[t].pc = "closed" /\ ~tk[t].admitted) => tk'[t] = tk[t]
          /\ (tk[t].pc = "idle" /\ tk'[t].failed_check = "rate_limiter") =>
                /\ user_last_request' = user_last_request
                /\ \A u \in Users \ {tenant} : rate_limiter'[u] = rate_limiter[u]
                /\ UNCHANGED <<subscriptions_db, env, sub, lock, ver>>]_vars

\* C18: no call of an adapter's stream_generate calls the adapter's own generate or
\* yields emulated chunks, and when the upstream rejected streaming or raised during
\* the stream, the call ends by raising.
C18_AdapterNeverFallsBack ==
    /\ ad.own_generate = 0
    /\ ad.emulated = 0
    /\ ad.upstream_exc # <<>> => ad.pc # "ended"

C20_NoBlankChunk ==
    \A t \in Tasks :
        \A i \in 1..Len(tk[t].events) :
            tk[t].events[i].type = "chunk" => ~StripIsEmpty(tk[t].events[i].content)

\* C21: a done event is emitted only by a request whose one deduction has committed,
\* in the step that writes its one usage record, and the credits_used and
\* credits_remaining it carries are those of the balance its own deduction returned,
\* whatever other requests of the tenant have committed since.
C21_DoneAfterDeductAndRecord ==
    [][\A t \in Tasks :
          (tk'[t].events # tk[t].events /\ LastType(tk'[t].events) = "done") =>
              LET done == tk'[t].events[Len(tk'[t].events)] IN
              /\ tk[t].pc = "persist" /\ tk[t].passed /\ tk[t].paid = tk[t].amt
              /\ tk[t].deducts = 1 /\ tk'[t].deducts = 1
              /\ tk[t].usage = 0 /\ tk'[t].usage = 1
              /\ done.credits_used = tk[t].obj.credits_used
              /\ done.credits_remaining = tk[t].obj.credits_remaining
              /\ \A i \in 1..Len(tk[t].events) : tk[t].events[i].type = "chunk"]_vars

C21_Witness ==
    \E t \in Tasks :
        /\ LastType(tk[t].events) = "done" /\ tk[t].usage = 1 /\ tk[t].deducts = 1
        /\ tk[t].events[Len(tk[t].events)].credits_remaining # sub.credits_remaining
        /\ \E o \in Tasks \ {t} : tk[o].pc = "persist"

\* the tokens of the completion the request streamed: what the counter counts
\* before its floor of one token
CompletionTokens(r) ==
    IF r.provider = "gemini" THEN Len(r.full_response) \div 4 ELSE SplitLen(r.full_response)

\* the credits the pre-check of the guard required of the request
Required(r) ==
    IF impl = "backend" THEN Needed(r.estimated, r.max_tokens, r.model)
    ELSE ((r.estimated + r.max_tokens) * MilliMultiplierApp(r.model)) \div 1000

\* C22: when an admitted streaming request reaches its deduction with the balance it
\* was admitted at and its completion has no more tokens than the max_tokens it asked
\* for, the credits it deducts are at most the credits the pre-check required, and
\* the deduction does not fail for insufficient credits.
C22_DeductionWithinPreCheck ==
    \A t \in Tasks :
        ( /\ tk[t].kind = "stream" /\ tk[t].admitted /\ tk[t].deducts = 1
          /\ tk[t].seen = tk[t].admittedAt
          /\ CompletionTokens(tk[t]) <= tk[t].max_tokens )
        => /\ tk[t].amt <= Required(tk[t])
           /\ tk[t].passed

ChunkContents(events) ==
    [i \in 1..Len(SelectSeq(events, LAMBDA e : e.type = "chunk")) |->
        SelectSeq(events, LAMBDA e : e.type = "chunk")[i].content]

\* C24: while only the adapter's stream has been relayed, the chunk events of the
\* caller are, in order, the adapter's deltas that are not blank; and from
\* finalization on, the accumulated text that is counted and billed is the
\* concatenation of the contents of all chunk events sent, after a real and after an
\* emulated stream.
C24_BilledTextIsSentText ==
    \A t \in Tasks :
        tk[t].kind = "stream" =>
            /\ (tk[t].gen_calls = 0 /\ tk[t].parts = <<>>) =>
                  ChunkContents(tk[t].events)
                      = SelectSeq(tk[t].yielded, LAMBDA d : ~StripIsEmpty(d))
            /\ (tk[t].pc \in {"finalize", "locked", "persist"} \/ tk[t].deducts >= 1) =>
                  tk[t].full_response = ChunkText(tk[t].events)

\* the adapter the stated table gives: the provider of the first pair, in the order
\* OpenAI keywords, claude, gemini, grok, perplexity / sonar, whose keyword occurs in
\* the lower-cased identifier, and the mock adapter when none occurs
FirstPair(model) ==
    LET low == lower(IF model = None THEN <<>> ELSE model)
        table == << <<kw_gpt, "openai">>, <<kw_o1, "openai">>, <<kw_openai, "openai">>,
                    <<kw_claude, "anthropic">>, <<kw_gemini, "gemini">>,
                    <<kw_grok, "grok">>, <<kw_perplexity, "perplexity">>,
                    <<kw_sonar, "perplexity">> >>
        hits == {i \in 1..Len(table) : Contains(low, table[i][1])}
    IN
    IF hits = {} THEN "mock"
    ELSE table[CHOOSE i \in hits : \A j \in hits : i <= j][2]

\* C25: create_provider returns the adapter of the first pair of the table whose
\* keyword occurs in the lower-cased model identifier, the mock adapter exactly when
\* no keyword occurs, and the same adapter for the identifier in lower case.
C25_FirstKeywordWins ==
    rt_result # "" =>
        /\ rt_result = FirstPair(rt_model)
        /\ rt_model # None =>
              rt_result = (IF impl = "backend" THEN create_provider(lower(rt_model), env)
                           ELSE create_provider_app(lower(rt_model), env))

\* what a run of the generator has yielded so far: consecutive slices of the text
\* from its start, none empty, all but the last of chunk_size characters; all of the
\* text in ceil(len / chunk_size) slices once it has ended uncancelled; nothing for
\* the empty text; nothing after a cancellation in the pause
EmulationSlices ==
    LET L == Len(em.text)
        n == Len(em.out)
    IN
    /\ Concat(em.out) = Slice(em.text, 0, Len(Concat(em.out)))
    /\ \A i \in 1..n : Len(em.out[i]) >= 1 /\ Len(em.out[i]) <= em.chunk_size
    /\ \A i \in 1..(n - 1) : Len(em.out[i]) = em.chunk_size
    /\ (em.pc = "done" /\ ~em.cancelled) =>
          /\ Concat(em.out) = em.text
          /\ n = (L + em.chunk_size - 1) \div em.chunk_size
          /\ em.chunk_size = EmuChunkSize => em.out = emulate_stream_text(em.text)
    /\ em.text = <<>> => em.out = <<>>
    /\ em.cancelled => em.pc = "done" /\ n = em.at_cancel

\* C26: for every text and every chunk_size >= 1, emulate_stream_text ends and yields,
\* in order, consecutive slices of the text whose concatenation is the text, each
\* non-empty and all but the last of chunk_size characters, none for the empty text,
\* and none after a cancellation during the pause between two slices.
C26_EmulateStreamText == []EmulationSlices /\ <>(em.pc = "done")

C26_Witness ==
    /\ em.pc = "done" /\ ~em.cancelled
    /\ Len(em.out) >= 2
    /\ Len(em.out[Len(em.out)]) < em.chunk_size

\* C27: the step in which the guard admits or rejects a request leaves the row's
\* credit columns as they were; the request is admitted only if credits_remaining
\* covers what the pre-check requires, and rejected for credits only if it does not,
\* whatever other requests of the tenant are admitted and not yet finalized.
C27_AdmissionReservesNothing ==
    [][\A t \in Tasks :
          (tk[t].pc = "idle" /\ tk'[t].kind \in {"stream", "chat"}) =>
              /\ sub' = sub /\ ver' = ver
              /\ tk'[t].admitted =>
                    sub.credits_remaining
                        >= Needed(tk'[t].estimated, tk'[t].max_tokens, tk'[t].model)
              /\ (tk'[t].failed_check = "credits" \/ tk'[t].http = 402) =>
                    sub.credits_remaining
                        < Needed(tk'[t].estimated, tk'[t].max_tokens, tk'[t].model)]_vars

C27_Witness ==
    /\ \A t \in Tasks :
          /\ tk[t].admitted /\ tk[t].deducts = 0
          /\ tk[t].pc \in {"stream", "generate", "finalize"}
          /\ tk[t].admittedAt = sub.credits_remaining
    /\ sub = sub0
    /\ tk[1].needed + tk[2].needed > sub.credits_remaining

\* C28: after every sequence of deductions, add-credits calls and tier changes, a
\* change to a tier whose credits_limit is below the credits already used included,
\* the subscription's credits_remaining is not negative.
C28_BalanceNeverNegative == sub.present => sub.credits_remaining >= 0

\* C29: for every user whose admitted calls all had one ceiling, and every instant
\* t up to now, the calls of the user that check_rate_limit admitted in the minute
\* up to t, (t - Minute, t], are at most that ceiling, whatever the other users do.
C29_AdmittedPerMinute ==
    \A u \in Users :
        \A c \in {FreeRate, ProRate} :
            (\A i \in 1..Len(admissions[u]) : admissions[u][i].limit = c) =>
                \A t \in 0..now :
                    Cardinality({i \in 1..Len(admissions[u]) :
                                    /\ admissions[u][i].at > t - Minute
                                    /\ admissions[u][i].at <= t}) <= c

C29_Witness ==
    \E u \in Users :
        /\ Len(admissions[u]) > FreeRate
        /\ \A i \in 1..Len(admissions[u]) : admissions[u][i].limit = FreeRate
        /\ rl_call.user_id = u /\ rl_call.raised
        /\ \E v \in Users \ {u} : admissions[v] # <<>>

\* C30: in the non-streaming chat operation of both orchestrators, a request whose
\* generate call raised has ended with status 500 and without a deduction attempt, a
\* deducted credit, a saved message or a usage record, the balance being the one it
\* was admitted with; while generate is awaited nothing is deducted, and a request
\* that attempted a deduction has called generate once and got a result.
C30_FailedGenerateBillsNothing ==
    \A t \in Tasks :
        tk[t].kind = "chat" =>
            /\ tk[t].exc # <<>> =>
                  /\ tk[t].pc = "closed" /\ tk[t].http = 500
                  /\ tk[t].deducts = 0 /\ tk[t].paid = 0
                  /\ tk[t].saved = 0 /\ tk[t].usage = 0
                  /\ sub.credits_remaining = tk[t].admittedAt
                  /\ sub.credits_used = tk[t].obj.credits_used
            /\ tk[t].pc \in {"generate", "generate_app"} =>
                  /\ tk[t].deducts = 0 /\ tk[t].gen_calls = 0
                  /\ sub.credits_remaining = tk[t].admittedAt
            /\ tk[t].deducts > 0 => tk[t].gen_calls = 1 /\ tk[t].exc = <<>>

C30_Witness ==
    \E t \in Tasks :
        /\ tk[t].kind = "chat" /\ tk[t].admitted
        /\ tk[t].exc \in UpstreamErrors
        /\ tk[t].pc = "closed"
        /\ sub.credits_remaining > 0

====
